---- MODULE Spec2Model ----
(***************************************************************************)
(* Model of src/app.py, the Streamlit script of the Dynamic Knowledge Base *)
(* Assistant.  One render pass (one top-to-bottom execution of the script  *)
(* for one browser session) is one atomic step.  The process holds the     *)
(* environment and the st.cache_resource cache; each session holds its     *)
(* widget values and its st.session_state.                                 *)
(*                                                                         *)
(* Collaborator calls (knowledge-base constructors, knowledge_base.load,   *)
(* Agent(...)) are taken to return normally; assistant.run, the one call   *)
(* the script guards with try/except, may return any response or raise.    *)
(***************************************************************************)
EXTENDS Naturals, Sequences, FiniteSets

VARIABLES env, widgets, session_state, cache, builds, last, passes, calls

vars == <<env, widgets, session_state, cache, builds, last, passes, calls>>

(***************************************************************************)
(* Bounds of the model.                                                    *)
(***************************************************************************)
\* number of render passes explored, over all sessions
MaxPasses == 6
\* longest transcript (in entries) a session is let to grow
MaxHistory == 4
\* number of direct builder calls explored by SpecBuilders
MaxCalls == 3

Sessions == {"s1", "s2"}

(***************************************************************************)
(* Python values.  None and str are tagged so that a value that is either  *)
(* (os.getenv's result, response.content) can be compared.                 *)
(***************************************************************************)
None == [t |-> "None"]
Str(s) == [t |-> "str", v |-> s]

\* Python truthiness of the values the script tests with "if x" / "not x".
Truthy(x) ==
    CASE x = None -> FALSE
      [] x.t = "str" -> x.v # ""
      [] OTHER -> TRUE

\* "needle in text" on strings, strings being sequences of words.
Contains(needle, text) ==
    \E i \in 1..(Len(text) + 1 - Len(needle)) :
        SubSeq(text, i, i + Len(needle) - 1) = needle

(***************************************************************************)
(* Input domains.                                                          *)
(***************************************************************************)
EnvValues == {None, Str(""), Str("key")}
PdfUrls == {Str(""), Str("https://a/doc.pdf")}
UploadedFiles == {None, [t |-> "UploadedFile", name |-> "f.pdf"]}
WebsiteUrls == {Str(""), Str("https://a")}
Questions == {Str(""), Str("What is machine learning?")}

\* what assistant.run can do: return a response object, or raise
RequestTooLarge == <<"Request", "too", "large">>
ErrorTexts == { <<"413", "Request", "too", "large", "for", "model">>,
                <<"Request", "too", "many", "large">> }
ExceptionClasses == {"APIStatusError", "RateLimitError", "APIConnectionError"}
Responses ==
    { [t |-> "RunResponse", has_content |-> TRUE, content |-> c, repr |-> "RunResponse(...)"] :
        c \in {None, Str("answer")} }
    \cup { [t |-> "object", has_content |-> FALSE, content |-> None, repr |-> "<generator>"] }
Outcomes ==
    { [kind |-> "return", response |-> r] : r \in Responses }
    \cup { [kind |-> "raise", cls |-> c, text |-> x] : c \in ExceptionClasses, x \in ErrorTexts }

(***************************************************************************)
(* Startup: lines 18-27.                                                   *)
(***************************************************************************)
\* os.getenv(name): None when the variable is not set
getenv(e, name) == e[name]

\* os.environ[name] = value raises TypeError unless value is a str
EnvironAssignRaises(value) == value.t # "str"

\* "ok", or how the script ends before line 30
Startup(e) ==
    IF EnvironAssignRaises(getenv(e, "GROQ_API_KEY")) THEN "TypeError"
    ELSE IF EnvironAssignRaises(getenv(e, "GOOGLE_API_KEY")) THEN "TypeError"
    ELSE IF ~Truthy(e["GROQ_API_KEY"]) \/ ~Truthy(e["GOOGLE_API_KEY"]) THEN "st.stop"
    ELSE "ok"

(***************************************************************************)
(* Knowledge-base builders: lines 69-135.                                  *)
(***************************************************************************)
db_url == "postgresql+psycopg://ai:ai@localhost:5532/ai"

PgVector2(collection) == [collection |-> collection, db_url |-> db_url]

\* tempfile.NamedTemporaryFile(delete=False, suffix=".pdf") holding the upload
TempPdfPath(uploaded_file) == [t |-> "tempfile", of |-> uploaded_file.name]

create_pdf_url_knowledge_base(pdf_url) ==
    IF Truthy(pdf_url)
    THEN [t |-> "PDFUrlKnowledgeBase", locator |-> pdf_url,
          vector_db |-> PgVector2("pdf_url")]
    ELSE None

create_local_pdf_knowledge_base(uploaded_file) ==
    IF Truthy(uploaded_file)
    THEN [t |-> "PDFKnowledgeBase", locator |-> TempPdfPath(uploaded_file),
          vector_db |-> PgVector2("pdf_documents")]
    ELSE None

\* variant: the website builder writing to the uploaded-PDF collection
create_website_knowledge_base_pdfCollection(website_url) ==
    IF Truthy(website_url)
    THEN [t |-> "WebsiteKnowledgeBase", locator |-> website_url,
          vector_db |-> PgVector2("pdf_documents")]
    ELSE None

create_website_knowledge_base(website_url) ==
    IF Truthy(website_url)
    THEN [t |-> "WebsiteKnowledgeBase", locator |-> website_url,
          vector_db |-> PgVector2("website_documents")]
    ELSE None

\* reads the three widget values of the current pass (module globals)
create_combined_knowledge_base(pdf_url_input, uploaded_pdf_file, website_url_input) ==
    LET s1 == IF Truthy(pdf_url_input)
              THEN <<create_pdf_url_knowledge_base(pdf_url_input)>> ELSE <<>>
        s2 == IF Truthy(uploaded_pdf_file)
              THEN Append(s1, create_local_pdf_knowledge_base(uploaded_pdf_file)) ELSE s1
        sources == IF Truthy(website_url_input)
                   THEN Append(s2, create_website_knowledge_base(website_url_input)) ELSE s2
    IN  IF sources # <<>>
        THEN [t |-> "CombinedKnowledgeBase", sources |-> SelectSeq(sources, Truthy),
              vector_db |-> PgVector2("combined_documents")]
        ELSE None

(***************************************************************************)
(* st.cache_resource around load_knowledge_base: lines 140-145.            *)
(* The cache is a set of entries [key, value, build]; build is the index   *)
(* in builds of the execution that made the value (the object's identity). *)
(***************************************************************************)
\* variant: an entry keyed by the calling session
CacheKey_perSession(s) == s

\* st.cache_resource keys an entry by the function and its arguments;
\* load_knowledge_base takes none, and the session is no part of the key
CacheKey(s) == "load_knowledge_base"

\* variant: no memoization, every call runs the body
CacheHit_never(c, key) == FALSE

CacheHit(c, key) == \E e \in c : e.key = key

CacheEntry(c, key) == CHOOSE e \in c : e.key = key

\* the body of load_knowledge_base, run by session s with widget values w
LoadBody(s, w) ==
    LET knowledge_base == create_combined_knowledge_base(w.pdf_url_input,
                              w.uploaded_pdf_file, w.website_url_input)
    IN  [session |-> s, knowledge_base |-> knowledge_base,
         recreated |-> Truthy(knowledge_base)]

\* the memoized call: [value, build, cache, builds] after it
load_knowledge_base(s, w, c, b) ==
    IF CacheHit(c, CacheKey(s))
    THEN [value |-> CacheEntry(c, CacheKey(s)).value,
          build |-> CacheEntry(c, CacheKey(s)).build,
          cache |-> c, builds |-> b]
    ELSE LET run == LoadBody(s, w)
         IN  [value |-> run.knowledge_base,
              build |-> Len(b) + 1,
              cache |-> c \cup {[key |-> CacheKey(s), value |-> run.knowledge_base,
                                 build |-> Len(b) + 1]},
              builds |-> Append(b, run)]

(***************************************************************************)
(* Chat block: lines 159-196.                                              *)
(***************************************************************************)
\* variant: the chat block guarded by the question alone
ChatEnabled_questionOnly(user_input, knowledge_base) == Truthy(user_input)

\* line 168
ChatEnabled(user_input, knowledge_base) == Truthy(user_input) /\ Truthy(knowledge_base)

\* line 183: response.content if hasattr(response, 'content') else str(response)
clean_response(response) ==
    IF response.has_content THEN response.content ELSE Str(response.repr)

\* lines 185-186
AppendTurn(chat_history, user_input, answer) ==
    Append(Append(chat_history, [speaker |-> "You", text |-> user_input]),
           [speaker |-> "Assistant", text |-> answer])

\* isinstance(e, groq.APIStatusError): RateLimitError is a subclass,
\* APIConnectionError is not
IsAPIStatusError(cls) == cls \in {"APIStatusError", "RateLimitError"}

\* variant: the too-large case matched by equality instead of "in"
ErrorBanner_exactText(cls, text) ==
    IF IsAPIStatusError(cls)
    THEN IF text = RequestTooLarge THEN "too_large" ELSE "api_error"
    ELSE "unexpected"

\* lines 188-194: the st.error shown for a raised exception
ErrorBanner(cls, text) ==
    IF IsAPIStatusError(cls)
    THEN IF Contains(RequestTooLarge, text) THEN "too_large" ELSE "api_error"
    ELSE "unexpected"

\* variant: the pass clears the question the widget holds
QuestionWidgetAfterRun_cleared(user_input) == Str("")

\* line 196 assigns the local name user_input; the text_input widget keeps
\* the value the browser holds
QuestionWidgetAfterRun(user_input) == user_input

\* lines 181-194: the transcript and the banner after assistant.run
ChatBlock(chat_history, user_input, outcome) ==
    IF outcome.kind = "return"
    THEN [chat_history |-> AppendTurn(chat_history, user_input,
                                      clean_response(outcome.response)),
          banner |-> "none"]
    ELSE [chat_history |-> chat_history,
          banner |-> ErrorBanner(outcome.cls, outcome.text)]

(***************************************************************************)
(* State.                                                                  *)
(*   env            the process environment after load_dotenv()            *)
(*   widgets        per session, the values the browser holds              *)
(*   session_state  per session, st.session_state                          *)
(*   cache          the process-wide st.cache_resource store               *)
(*   builds         every execution of load_knowledge_base's body, in order*)
(*   last           what the most recent render pass did and showed        *)
(*   calls          direct builder calls (SpecBuilders only)               *)
(***************************************************************************)
NoOutcome == [kind |-> "none"]

NoPass ==
    [session |-> "none", pressed |-> FALSE, flag_before |-> FALSE,
     user_input |-> Str(""), halt |-> "none", rendered |-> FALSE,
     knowledge_base |-> None, build |-> 0, built |-> FALSE, notice |-> "none",
     agent_called |-> FALSE, outcome |-> NoOutcome, banner |-> "none",
     displayed |-> FALSE]

DefaultWidgets ==
    [pdf_url_input |-> Str(""), uploaded_pdf_file |-> None,
     website_url_input |-> Str(""), user_input |-> Str("")]

NewSessionState ==
    [load_knowledge_base |-> FALSE, has_chat_history |-> FALSE, chat_history |-> <<>>]

Init ==
    /\ env \in [{"GROQ_API_KEY", "GOOGLE_API_KEY"} -> EnvValues]
    /\ widgets = [s \in Sessions |-> DefaultWidgets]
    /\ session_state = [s \in Sessions |-> NewSessionState]
    /\ cache = {}
    /\ builds = <<>>
    /\ last = NoPass
    /\ passes = 0
    /\ calls = <<>>

\* the widgets of a session exist once a pass of it has rendered them
Rendered(s) == session_state[s].has_chat_history

(***************************************************************************)
(* One render pass of session s: the script from line 18 to line 227, with *)
(* widget values w, the load button pressed or not, and assistant.run      *)
(* behaving as outcome when it is called.                                  *)
(***************************************************************************)
\* assistant.run is reached only when the chat block runs
OutcomesWhen(called) == IF called THEN Outcomes ELSE {NoOutcome}

RunScript(s, w, pressed) ==
    /\ passes < MaxPasses
    /\ passes' = passes + 1
    /\ IF Startup(env) # "ok"
       THEN \* lines 21-27: TypeError at the assignment, or st.error and st.stop
            /\ last' = [NoPass EXCEPT !.session = s, !.halt = Startup(env),
                           !.banner = IF Startup(env) = "st.stop"
                                      THEN "missing_keys" ELSE "traceback"]
            /\ UNCHANGED <<widgets, session_state, cache, builds>>
       ELSE LET \* lines 65-66
                flag == pressed \/ session_state[s].load_knowledge_base
                \* lines 148-150
                load == IF flag
                        THEN load_knowledge_base(s, w, cache, builds)
                        ELSE [value |-> None, build |-> 0, cache |-> cache,
                              builds |-> builds]
                knowledge_base == load.value
                \* lines 151-154
                notice == IF ~flag THEN "none"
                          ELSE IF Truthy(knowledge_base) THEN "success" ELSE "warning"
                \* lines 165-166
                history == session_state[s].chat_history
                \* line 168
                called == ChatEnabled(w.user_input, knowledge_base)
            IN  \E outcome \in OutcomesWhen(called) :
                  LET \* lines 169-196
                      chat == IF called THEN ChatBlock(history, w.user_input, outcome)
                              ELSE [chat_history |-> history, banner |-> "none"]
                  IN  /\ Len(chat.chat_history) <= MaxHistory
                      /\ widgets' = [widgets EXCEPT ![s] =
                            [w EXCEPT !.user_input = QuestionWidgetAfterRun(w.user_input)]]
                      /\ session_state' = [session_state EXCEPT ![s] =
                            [load_knowledge_base |-> flag, has_chat_history |-> TRUE,
                             chat_history |-> chat.chat_history]]
                      /\ cache' = load.cache
                      /\ builds' = load.builds
                      /\ last' = [session |-> s, pressed |-> pressed,
                                  flag_before |-> session_state[s].load_knowledge_base,
                                  user_input |-> w.user_input, halt |-> "none",
                                  rendered |-> TRUE, knowledge_base |-> knowledge_base,
                                  build |-> load.build, built |-> load.builds # builds,
                                  notice |-> notice, agent_called |-> called,
                                  outcome |-> outcome, banner |-> chat.banner,
                                  displayed |-> TRUE]

\* first visit of a session, or a re-render that changes no widget value
Rerun(s) ==
    /\ RunScript(s, widgets[s], FALSE)
    /\ UNCHANGED <<env, calls>>

\* line 49
EditPdfUrl(s) ==
    /\ Rendered(s)
    /\ \E v \in PdfUrls \ {widgets[s].pdf_url_input} :
          RunScript(s, [widgets[s] EXCEPT !.pdf_url_input = v], FALSE)
    /\ UNCHANGED <<env, calls>>

\* line 54
UploadPdf(s) ==
    /\ Rendered(s)
    /\ \E f \in UploadedFiles \ {widgets[s].uploaded_pdf_file} :
          RunScript(s, [widgets[s] EXCEPT !.uploaded_pdf_file = f], FALSE)
    /\ UNCHANGED <<env, calls>>

\* line 59
EditWebsiteUrl(s) ==
    /\ Rendered(s)
    /\ \E v \in WebsiteUrls \ {widgets[s].website_url_input} :
          RunScript(s, [widgets[s] EXCEPT !.website_url_input = v], FALSE)
    /\ UNCHANGED <<env, calls>>

\* line 65
PressLoad(s) ==
    /\ Rendered(s)
    /\ RunScript(s, widgets[s], TRUE)
    /\ UNCHANGED <<env, calls>>

\* line 159
EditQuestion(s) ==
    /\ Rendered(s)
    /\ \E q \in Questions \ {widgets[s].user_input} :
          RunScript(s, [widgets[s] EXCEPT !.user_input = q], FALSE)
    /\ UNCHANGED <<env, calls>>

Next ==
    \E s \in Sessions :
        \/ Rerun(s)
        \/ EditPdfUrl(s)
        \/ UploadPdf(s)
        \/ EditWebsiteUrl(s)
        \/ PressLoad(s)
        \/ EditQuestion(s)

Spec == Init /\ [][Next]_vars

(***************************************************************************)
(* The builders called directly, with any locator: a second specification  *)
(* for the properties of the builders as functions.                        *)
(***************************************************************************)
InitBuilders ==
    /\ env = [k \in {"GROQ_API_KEY", "GOOGLE_API_KEY"} |-> Str("key")]
    /\ widgets = [s \in Sessions |-> DefaultWidgets]
    /\ session_state = [s \in Sessions |-> NewSessionState]
    /\ cache = {}
    /\ builds = <<>>
    /\ last = NoPass
    /\ passes = 0
    /\ calls = <<>>

\* one recorded call: the builder, whether its locator was empty, its result
Call(fn, empty, result) == [fn |-> fn, empty |-> empty, result |-> result]

CallPdfUrl ==
    /\ Len(calls) < MaxCalls
    /\ \E pdf_url \in PdfUrls :
          calls' = Append(calls, Call("create_pdf_url_knowledge_base", pdf_url = Str(""),
                                      create_pdf_url_knowledge_base(pdf_url)))
    /\ UNCHANGED <<env, widgets, session_state, cache, builds, last, passes>>

CallLocalPdf ==
    /\ Len(calls) < MaxCalls
    /\ \E uploaded_file \in UploadedFiles :
          calls' = Append(calls, Call("create_local_pdf_knowledge_base",
                                      uploaded_file = None,
                                      create_local_pdf_knowledge_base(uploaded_file)))
    /\ UNCHANGED <<env, widgets, session_state, cache, builds, last, passes>>

CallWebsite ==
    /\ Len(calls) < MaxCalls
    /\ \E website_url \in WebsiteUrls :
          calls' = Append(calls, Call("create_website_knowledge_base",
                                      website_url = Str(""),
                                      create_website_knowledge_base(website_url)))
    /\ UNCHANGED <<env, widgets, session_state, cache, builds, last, passes>>

CallCombined ==
    /\ Len(calls) < MaxCalls
    /\ \E pdf_url \in PdfUrls, uploaded_file \in UploadedFiles,
          website_url \in WebsiteUrls :
          calls' = Append(calls, Call("create_combined_knowledge_base",
                      pdf_url = Str("") /\ uploaded_file = None /\ website_url = Str(""),
                      create_combined_knowledge_base(pdf_url, uploaded_file, website_url)))
    /\ UNCHANGED <<env, widgets, session_state, cache, builds, last, passes>>

NextBuilders == CallPdfUrl \/ CallLocalPdf \/ CallWebsite \/ CallCombined

SpecBuilders == InitBuilders /\ [][NextBuilders]_vars

(***************************************************************************)
(* Properties.                                                             *)
(***************************************************************************)
\* at least one of the three source inputs of session s is non-empty
AnySource(s) ==
    \/ widgets[s].pdf_url_input # Str("")
    \/ widgets[s].uploaded_pdf_file # None
    \/ widgets[s].website_url_input # Str("")

\* the transcript of session s (empty while the key is not set)
Transcript(ss, s) == ss[s].chat_history

\* C1: in any render pass in which "load" is pressed while at least one source
\* input is non-empty, the handle obtained in that pass is non-null and the
\* success message is shown.
C1_LoadWithSourceSucceeds ==
    (last.rendered /\ last.pressed /\ AnySource(last.session))
        => (last.knowledge_base # None /\ last.notice = "success")

\* C2: in any render pass in which "load" is pressed while all three source
\* inputs are empty, the handle obtained is null and the no-sources warning is
\* shown, never the success message.
C2_LoadWithoutSourcesWarns ==
    (last.rendered /\ last.pressed /\ ~AnySource(last.session))
        => (last.knowledge_base = None /\ last.notice = "warning")

\* C3: once a session's memoized load_knowledge_base has completed, no later
\* render pass of that session runs the body (and so knowledge_base.load with
\* recreate) again, whatever triggered the pass and whatever the inputs are;
\* the pass gets the handle of the first build.
C3_NoRebuildAfterFirstLoad ==
    [][\A s \in Sessions :
          (session_state[s].load_knowledge_base /\ last'.session = s /\ passes' # passes)
              => /\ builds' = builds
                 /\ ~last'.built
                 /\ last'.build = 1
                 /\ last'.knowledge_base = builds[1].knowledge_base]_vars

\* a session pressed "load" again with other inputs than those of the first
\* build, which it had run itself, and nothing was rebuilt
C3_Witness ==
    /\ last.pressed /\ last.flag_before /\ ~last.built
    /\ builds # <<>> /\ builds[1].session = last.session
    /\ builds[1].recreated
    /\ LoadBody(last.session, widgets[last.session]).knowledge_base
           # builds[1].knowledge_base

\* session s presses "load" for the first time in this step while another
\* session has completed a load
FirstLoadAfterOther(s) ==
    /\ last'.session = s /\ last'.pressed /\ ~session_state[s].load_knowledge_base
    /\ \E o \in Sessions \ {s} : session_state[o].load_knowledge_base

Answered(s) ==
    /\ last'.session = s /\ passes' # passes
    /\ last'.agent_called /\ last'.outcome.kind = "return"

\* after the step the transcript of s is its transcript before, followed by
\* ("You", the question) and ("Assistant", answer)
GrewByTurn(s, answer) ==
    LET before == Transcript(session_state, s)
        after == Transcript(session_state', s)
    IN  /\ Len(after) = Len(before) + 2
        /\ SubSeq(after, 1, Len(before)) = before
        /\ after[Len(before) + 1] = [speaker |-> "You", text |-> last'.user_input]
        /\ after[Len(before) + 2] = [speaker |-> "Assistant", text |-> answer]

\* C5: when the question is non-empty, a knowledge base is loaded
\* and the agent call returns, the transcript grows by exactly ("You",
\* question) and ("Assistant", a non-empty string from the response's content
\* attribute, or from str(response) when the attribute is absent).
C5_AnswerIsNonEmptyString ==
    [][\A s \in Sessions :
          Answered(s) =>
              LET r == last'.outcome.response
                  answer == IF r.has_content THEN r.content ELSE Str(r.repr)
              IN  /\ answer.t = "str" /\ answer.v # ""
                  /\ GrewByTurn(s, answer)]_vars

\* What lines 183-186 do ensure: the transcript grows by exactly ("You",
\* question) and ("Assistant", x), x being the value of the response's content
\* attribute whatever it is (None included), or str(response) when the
\* attribute is absent.
AnswerIsContentOrStr ==
    [][\A s \in Sessions :
          Answered(s) =>
              LET r == last'.outcome.response
              IN  /\ Truthy(last'.user_input) /\ Truthy(last'.knowledge_base)
                  /\ r.has_content => GrewByTurn(s, r.content)
                  /\ ~r.has_content => GrewByTurn(s, Str(r.repr))]_vars

\* C6: in a render pass in which no knowledge base is loaded (the load flag
\* is unset, or the load returned no handle), a non-empty question does not
\* invoke the chat agent and the transcript is left unchanged.
C6_NoKnowledgeBaseNoChat ==
    [][\A s \in Sessions :
          (/\ last'.session = s /\ passes' # passes /\ last'.rendered
           /\ last'.user_input # Str("")
           /\ (~session_state'[s].load_knowledge_base \/ last'.knowledge_base = None))
              => /\ ~last'.agent_called
                 /\ last'.outcome = NoOutcome
                 /\ Transcript(session_state', s) = Transcript(session_state, s)]_vars

\* a question was submitted in a session whose load returned no handle
C6_Witness ==
    /\ last.rendered /\ last.user_input # Str("")
    /\ session_state[last.session].load_knowledge_base
    /\ last.knowledge_base = None /\ last.notice = "warning"
    /\ ~last.agent_called

\* C7: if the agent call raises an API status error whose text contains
\* "Request too large", the transcript is unchanged and the too-large message
\* is shown; for any other exception the transcript is unchanged and a generic
\* error message is shown; either way the pass goes on to display the
\* transcript.
C7_ErrorsLeaveTranscript ==
    [][\A s \in Sessions :
          (/\ last'.session = s /\ passes' # passes
           /\ last'.agent_called /\ last'.outcome.kind = "raise")
              => LET e == last'.outcome
                     tooLarge == /\ e.cls \in {"APIStatusError", "RateLimitError"}
                                 /\ \E i \in 1..Len(e.text) :
                                       /\ i + 2 <= Len(e.text)
                                       /\ e.text[i] = "Request"
                                       /\ e.text[i + 1] = "too"
                                       /\ e.text[i + 2] = "large"
                 IN  /\ Transcript(session_state', s) = Transcript(session_state, s)
                     /\ tooLarge => last'.banner = "too_large"
                     /\ ~tooLarge => last'.banner \in {"api_error", "unexpected"}
                     /\ last'.displayed /\ last'.halt = "none"
                     /\ Rendered(s)']_vars

\* the too-large message was shown for an error whose text holds the phrase
\* among other words
C7_Witness ==
    /\ last.agent_called /\ last.outcome.kind = "raise"
    /\ last.banner = "too_large"
    /\ last.outcome.text # RequestTooLarge
    /\ last.displayed

\* C8: if either credential is absent from the environment, or present but
\* empty, startup shows the configuration-error message and halts before any
\* widget is rendered.
C8_MissingCredentialHalts ==
    (/\ last.session # "none"
     /\ \E k \in {"GROQ_API_KEY", "GOOGLE_API_KEY"} : env[k] \in {None, Str("")})
        => (last.banner = "missing_keys" /\ last.halt = "st.stop" /\ ~last.rendered)

\* C9: each builder returns None for an empty locator; for a non-empty one it
\* returns a handle on a collection of its own, different from the collection
\* of every other builder and from the combined knowledge base's.
C9_BuildersOwnCollections ==
    \A i \in 1..Len(calls) :
        /\ calls[i].empty => calls[i].result = None
        /\ ~calls[i].empty =>
              /\ calls[i].result # None
              /\ \A j \in 1..Len(calls) :
                    (calls[j].result # None /\ calls[j].fn # calls[i].fn)
                        => calls[j].result.vector_db.collection
                               # calls[i].result.vector_db.collection
        /\ (calls[i].fn = "create_combined_knowledge_base" /\ ~calls[i].empty) =>
              \A k \in 1..Len(calls[i].result.sources) :
                  calls[i].result.sources[k].vector_db.collection
                      # calls[i].result.vector_db.collection

\* a builder was called without a locator, and the website builder and the
\* uploaded-PDF builder were each called with one
C9_Witness ==
    \E i, j, k \in 1..Len(calls) :
        /\ calls[i].empty /\ calls[i].fn = "create_pdf_url_knowledge_base"
        /\ calls[i].result = None
        /\ calls[j].fn = "create_website_knowledge_base" /\ ~calls[j].empty
        /\ calls[k].fn = "create_local_pdf_knowledge_base" /\ ~calls[k].empty

\* C10: a render pass never clears the question the question input holds, so
\* every pass in which that question is non-empty and the handle is non-null
\* (a pass triggered by "load" or by a source input included) invokes the
\* agent again and, when the call returns, appends a further pair for it.
C10_QuestionStaysAndIsAnsweredAgain ==
    [][\A s \in Sessions :
          (last'.session = s /\ passes' # passes /\ last'.rendered)
              => /\ widgets'[s].user_input = last'.user_input
                 /\ (widgets[s].user_input # Str("") /\ last'.knowledge_base # None
                     /\ last'.user_input = widgets[s].user_input)
                        => /\ last'.agent_called
                           /\ last'.outcome.kind = "return"
                                 => GrewByTurn(s, clean_response(last'.outcome.response))]_vars

\* pressing "load" answered, a second time, the question already answered
C10_Witness ==
    /\ last.pressed /\ last.agent_called /\ last.outcome.kind = "return"
    /\ LET h == Transcript(session_state, last.session)
       IN  /\ Len(h) = 4
           /\ h[1] = [speaker |-> "You", text |-> last.user_input]
           /\ h[3] = [speaker |-> "You", text |-> last.user_input]
    /\ widgets[last.session].user_input = last.user_input

====
